---- MODULE Spec2Model ----
(***************************************************************************)
(* The Snowpipe Streaming v2 client of src/snowpipe_streaming_client.py:   *)
(* the session fields of SnowpipeStreamingClient, one action per public    *)
(* method, and the commit-wait loop of wait_for_commit() step by step.     *)
(* The remote service is the environment: it answers every request the     *)
(* client sends with a response drawn from a small set.                    *)
(***************************************************************************)
EXTENDS Integers, Sequences, FiniteSets, TLC

(***************************************************************************)
(* Bounds of the model.                                                    *)
(***************************************************************************)
\* continuation tokens the remote may issue in one behaviour
MaxTok == 3
\* offset tokens are the decimal strings of 9 and of 10..MaxOffset
MaxOffset == 10
\* largest timeout_seconds a caller other than main() passes to wait_for_commit
MaxTimeout == 2
\* polls of one wait_for_commit answered at any pace (more than a wait of
\* MaxTimeout makes); the polls after them are answered slowly
MaxPolls == 3

(***************************************************************************)
(* Values.  Python's None in a string-valued field is the string "None"    *)
(* (what an f-string renders it as); a hostname is a sequence of           *)
(* characters and the absent host is the empty sequence (the code never    *)
(* stores an empty host); an offset token is the sequence of its           *)
(* characters' code points (48..57 are the digits "0".."9", so "10" is     *)
(* <<49, 48>> and "" is << >>), since the code orders and parses these     *)
(* strings; the absent offset (None) is NoOffset.                          *)
(***************************************************************************)
None == "None"
NoHost == << >>
NoOffset == << -1 >>

\* hostnames a discovery response carries; the empty one is a missing hostname
Hostnames == {<< >>, <<"h", "_", "1">>}

\* str(n) for an int n: a "-" if negative, then its decimal digits
RECURSIVE str(_)
str(n) ==
    IF n < 0 THEN <<45>> \o str(-n)
    ELSE IF n < 10 THEN <<48 + n>>
    ELSE Append(str(n \div 10), 48 + (n % 10))

\* the code points int() ignores around the number: the ASCII whitespace
\* (without the separators 28..31) and the Unicode spaces
Whitespace ==
    {9, 10, 11, 12, 13, 32, 133, 160, 5760} \cup (8192..8202)
    \cup {8232, 8233, 8239, 8287, 12288}

\* the code points of the digit zero of every Unicode decimal digit range
DigitZeros ==
    { 48, 1632, 1776, 1984, 2406, 2534, 2662, 2790, 2918, 3046, 3174, 3302,
      3430, 3558, 3664, 3792, 3872, 4160, 4240, 6112, 6160, 6470, 6608, 6784,
      6800, 6992, 7088, 7232, 7248, 42528, 43216, 43264, 43472, 43504, 43600,
      44016, 65296, 66720, 68912, 69734, 69872, 69942, 70096, 70384, 70736,
      70864, 71248, 71360, 71472, 71904, 72016, 72784, 73040, 73120, 92768,
      92864, 93008, 120782, 120792, 120802, 120812, 120822, 123200, 123632,
      125264, 130032 }

\* the code points int() reads as a decimal digit, and the digit's value
IsDigit(c) == \E z \in DigitZeros : z <= c /\ c <= z + 9
digit_value(c) == c - (CHOOSE z \in DigitZeros : z <= c /\ c <= z + 9)

\* s without the whitespace int() ignores at its ends
RECURSIVE strip(_)
strip(s) ==
    IF Len(s) = 0 THEN s
    ELSE IF s[1] \in Whitespace THEN strip(Tail(s))
    ELSE IF s[Len(s)] \in Whitespace THEN strip(SubSeq(s, 1, Len(s) - 1))
    ELSE s

\* s without the sign int() allows in front of the digits
unsigned(s) == IF Len(s) > 0 /\ s[1] \in {43, 45} THEN Tail(s) ELSE s

\* sys.get_int_max_str_digits(): the most digits int() reads from a string
\* and str() writes of an int (the interpreter's default)
int_max_str_digits == 4300

\* int(s) does not raise ValueError: around whitespace and after an optional
\* sign, s is decimal digits, single underscores allowed between two digits,
\* and the digits (leading zeros counted) are no more than the limit
IsDecimal(s) ==
    LET d == unsigned(strip(s))
    IN  /\ Len(d) > 0
        /\ Len(SelectSeq(d, LAMBDA c : c # 95)) <= int_max_str_digits
        /\ \A i \in 1..Len(d) :
              \/ IsDigit(d[i])
              \/ /\ d[i] = 95
                 /\ 1 < i /\ i < Len(d)
                 /\ IsDigit(d[i - 1]) /\ IsDigit(d[i + 1])

\* the value of a run of digits (underscores skipped)
RECURSIVE digits_value(_)
digits_value(d) ==
    IF Len(d) = 0 THEN 0
    ELSE IF d[Len(d)] = 95 THEN digits_value(SubSeq(d, 1, Len(d) - 1))
    ELSE 10 * digits_value(SubSeq(d, 1, Len(d) - 1)) + digit_value(d[Len(d)])

\* int(s) for a string s that int() accepts (IsDecimal)
int(s) ==
    LET t == strip(s)
    IN  IF Len(t) > 0 /\ t[1] = 45 THEN 0 - digits_value(unsigned(t))
        ELSE digits_value(unsigned(t))

\* Python's int has no fixed width: an int of any size is its sign and the
\* decimal digits of its magnitude, without leading zeros (none for 0)
trimmed(m) ==
    IF \A i \in 1..Len(m) : m[i] = 0 THEN << >>
    ELSE SubSeq(m, CHOOSE k \in 1..Len(m) : m[k] # 0 /\ \A j \in 1..(k - 1) : m[j] = 0,
                Len(m))

\* int(s) of any size, for a string s that int() accepts
long(s) ==
    LET d == SelectSeq(unsigned(strip(s)), LAMBDA c : c # 95)
        m == trimmed([i \in 1..Len(d) |-> digit_value(d[i])])
    IN  [neg |-> Len(m) > 0 /\ strip(s)[1] = 45, mag |-> m]

\* n + 1 for an int n of any size
plus_one(n) ==
    LET m == n.mag
        len == Len(m)
    IN  IF n.neg
        THEN LET k == CHOOSE k \in 1..len : m[k] # 0 /\ \A j \in (k + 1)..len : m[j] = 0
                 r == trimmed([i \in 1..len |-> IF i < k THEN m[i]
                                                ELSE IF i = k THEN m[i] - 1 ELSE 9])
             IN  [neg |-> Len(r) > 0, mag |-> r]
        ELSE LET k == CHOOSE k \in 0..len :
                         (k = 0 \/ m[k] # 9) /\ \A j \in (k + 1)..len : m[j] = 9
             IN  [ neg |-> FALSE,
                   mag |-> IF k = 0 THEN <<1>> \o [i \in 1..len |-> 0]
                           ELSE [i \in 1..len |-> IF i < k THEN m[i]
                                                  ELSE IF i = k THEN m[i] + 1 ELSE 0] ]

\* str(n) does not raise ValueError: n has no more digits than the limit
str_fits(n) == Len(n.mag) <= int_max_str_digits

\* str(n) for an int n of any size
long_str(n) ==
    IF Len(n.mag) = 0 THEN <<48>>
    ELSE (IF n.neg THEN <<45>> ELSE << >>) \o [i \in 1..Len(n.mag) |-> 48 + n.mag[i]]

\* Python's s >= t on strings: lexicographic on code points, a proper prefix is smaller
RECURSIVE StrGE(_, _)
StrGE(s, t) ==
    IF Len(t) = 0 THEN TRUE
    ELSE IF Len(s) = 0 THEN FALSE
    ELSE IF s[1] # t[1] THEN s[1] > t[1]
    ELSE StrGE(Tail(s), Tail(t))

OffsetTokens == {str(n) : n \in {9} \cup (10..MaxOffset)}
OptOffsets == OffsetTokens \cup {NoOffset}

\* a decimal integer of one digit more than int() reads
LongOffset == [i \in 1..(int_max_str_digits + 1) |-> 49]

\* the offsets the remote may report as committed: the service stores the
\* token it was given, which need not be a number int() reads ("", "1x" and
\* a number of more digits than the limit)
CommittedOffsets == OptOffsets \cup {<< >>, <<49, 120>>, LongOffset}

\* the continuation tokens the remote hands out, in the order it issues them
TokenNames == <<"ct1", "ct2", "ct3", "ct4", "ct5", "ct6", "ct7", "ct8">>
Tok(n) == IF n = 0 THEN None ELSE TokenNames[n]

\* `not x` for an optional string, and for an optional host
Falsy(x) == x = None \/ x = ""
NoHostSet(h) == Len(h) = 0

(***************************************************************************)
(* Configuration (SnowpipeConfig): only the fields the protocol reads.     *)
(***************************************************************************)
AuthMethods == {"pat", "programmatic", "keypair_jwt"}

\* a key-pair configuration names a key file (one that loads, or one that does
\* not) and no token; the other configurations name no key file
Configs ==
    { c \in [auth_method : AuthMethods, pat_token : {None, "abc"},
             private_key_path : {"", "rsa_key.p8", "unreadable.p8"}] :
        IF c.auth_method = "keypair_jwt"
        THEN c.pat_token = None /\ c.private_key_path # ""
        ELSE c.private_key_path = "" }

\* _load_private_key(): the key files that load
KeyLoads(path) == path = "rsa_key.p8"

\* str.lower() on the configured method names
lower(s) ==
    CASE s = "PAT" -> "pat"
      [] s = "Programmatic" -> "programmatic"
      [] s = "KEYPAIR_JWT" -> "keypair_jwt"
      [] OTHER -> s

VARIABLES
    config,     \* the SnowpipeConfig the client was built with
    client,     \* the instance fields of SnowpipeStreamingClient
    issued,     \* remote: number of continuation tokens issued, Tok(issued) the newest
    chanOpen,   \* remote: the channel exists
    last,       \* the last call made on the client: what it sent and how it ended
    wait,       \* the frame of a running wait_for_commit()
    hist,       \* history of the session (ghost)
    input,      \* what the environment gave the last call: a body, a clock reading
    main,       \* the frame of main(): its position and its local offset_token
    calls       \* the append_rows() calls of concurrent callers, a frame for each

vars == <<config, client, issued, chanOpen, last, wait, hist, input, main, calls>>

\* self.control_host, fixed by __init__ from the configuration
control_host == <<"c", "t", "l">>

\* SnowpipeStreamingClient.__init__
InitClient ==
    [ ingest_host |-> NoHost,
      scoped_token |-> None,
      scoped_token_type |-> None,
      continuation_token |-> None,
      offset_token |-> NoOffset ]

(***************************************************************************)
(* Requests and responses.  A request records the endpoint and the fields  *)
(* the claims speak of; fields an endpoint does not carry are None.        *)
(***************************************************************************)
\* _headers(token, token_type): the type header is left out when the type is falsy
_headers(token, token_type) ==
    [ bearer |-> token,
      ttype |-> IF Falsy(token_type) THEN None ELSE token_type ]

Req(op, host, headers, ct, off) ==
    [ op |-> op, host |-> host, bearer |-> headers.bearer, ttype |-> headers.ttype,
      continuationToken |-> ct, offsetToken |-> off ]

\* how a call ends: the fields it leaves, the exception it raised ("none" when
\* it returned), what it returned, the requests it sent in order.  A request
\* that got no 2xx response raises a requests.RequestException: the HTTPError
\* of raise_for_status(), or the error of the transport.  A field of a 2xx
\* body is either absent or holds a non-empty string.
Result(self, raised, ret, sent) ==
    [ self |-> self, raised |-> raised, ret |-> ret, sent |-> sent ]

\* _jwt_token(): generate_jwt() signs a token, or raises when the key cannot be loaded
_jwt_token(cfg) ==
    IF KeyLoads(cfg.private_key_path) THEN [raised |-> "none", token |-> "jwt"]
    ELSE [raised |-> "OSError", token |-> None]

\* _auth_token(): the credential and its type
_auth_token(cfg) ==
    LET auth_method == lower(IF Falsy(cfg.auth_method) THEN "" ELSE cfg.auth_method)
    IN  IF auth_method \in {"pat", "programmatic_access_token", "programmatic"}
        THEN IF Falsy(cfg.pat_token)
             THEN [raised |-> "ValueError", token |-> None, type |-> None]
             ELSE [raised |-> "none", token |-> cfg.pat_token,
                   type |-> "PROGRAMMATIC_ACCESS_TOKEN"]
        ELSE LET j == _jwt_token(cfg)
             IN  [raised |-> j.raised, token |-> j.token,
                  type |-> IF j.raised = "none" THEN "KEYPAIR_JWT" ELSE None]

\* host.replace("_", "-", 1): only the first underscore is replaced
RECURSIVE replace_first_underscore(_)
replace_first_underscore(host) ==
    IF Len(host) = 0 THEN << >>
    ELSE IF host[1] = "_" THEN <<"-">> \o Tail(host)
    ELSE <<host[1]>> \o replace_first_underscore(Tail(host))

\* host.replace("_", "-")
RECURSIVE replace_underscore(_)
replace_underscore(host) ==
    IF Len(host) = 0 THEN << >>
    ELSE <<IF host[1] = "_" THEN "-" ELSE host[1]>> \o replace_underscore(Tail(host))

\* the GET of get_ingest_host(), with the credential of _auth_token()
hostname_request(cfg) ==
    LET auth == _auth_token(cfg)
    IN  Req("GET hostname", control_host, _headers(auth.token, auth.type), None, NoOffset)

\* get_ingest_host(): resp = [ok, hostname], hostname empty when the body has none
get_ingest_host(self, cfg, resp) ==
    LET auth == _auth_token(cfg)
        req == hostname_request(cfg)
    IN  IF auth.raised # "none" THEN Result(self, auth.raised, None, << >>)
        ELSE IF ~resp.ok THEN Result(self, "RequestException", None, <<req>>)
        ELSE IF NoHostSet(resp.hostname) THEN Result(self, "RuntimeError", None, <<req>>)
        ELSE Result([self EXCEPT !.ingest_host = replace_underscore(resp.hostname)],
                    "none", "host", <<req>>)

\* the POST of exchange_scoped_token(), with the credential of _auth_token()
token_request(cfg) ==
    LET auth == _auth_token(cfg)
    IN  Req("POST oauth/token", control_host, _headers(auth.token, auth.type), None, NoOffset)

\* exchange_scoped_token(): resp = [ok, has_token, token]
exchange_scoped_token(self, cfg, resp) ==
    IF lower(cfg.auth_method) = "pat"
    THEN Result([self EXCEPT !.scoped_token = cfg.pat_token,
                             !.scoped_token_type = "PROGRAMMATIC_ACCESS_TOKEN"],
                "none", cfg.pat_token, << >>)
    ELSE LET auth == _auth_token(cfg)
             req == token_request(cfg)
         IN  IF auth.raised # "none" THEN Result(self, auth.raised, None, << >>)
             ELSE IF ~resp.ok THEN Result(self, "RequestException", None, <<req>>)
             ELSE IF ~resp.has_token THEN Result(self, "KeyError", None, <<req>>)
             ELSE Result([self EXCEPT !.scoped_token = resp.token,
                                      !.scoped_token_type = "OAUTH"],
                         "none", resp.token, <<req>>)

\* the PUT of open_channel()
open_request(self, offset_token) ==
    Req("PUT channel", self.ingest_host, _headers(self.scoped_token, self.scoped_token_type),
        None, offset_token)

\* open_channel(offset_token): resp = [ok, has_token, token, has_status, committed]
open_channel(self, offset_token, resp) ==
    LET req == open_request(self, offset_token)
    IN  IF NoHostSet(self.ingest_host) THEN Result(self, "RuntimeError", None, << >>)
        ELSE IF ~resp.ok THEN Result(self, "RequestException", None, <<req>>)
        ELSE IF ~resp.has_token THEN Result(self, "KeyError", None, <<req>>)
        ELSE IF ~resp.has_status
             THEN Result([self EXCEPT !.continuation_token = resp.token],
                         "KeyError", None, <<req>>)
        ELSE Result([self EXCEPT !.continuation_token = resp.token,
                                 !.offset_token = resp.committed],
                    "none", resp.token, <<req>>)

\* the POST of append_rows()
append_request(self, offset_token) ==
    Req("POST rows", self.ingest_host, _headers(self.scoped_token, self.scoped_token_type),
        self.continuation_token, offset_token)

\* append_rows() that does not store the token of the response
append_rows_keeps_token(self, offset_token, resp) ==
    LET req == append_request(self, offset_token)
    IN  IF NoHostSet(self.ingest_host) \/ Falsy(self.continuation_token)
        THEN Result(self, "RuntimeError", None, << >>)
        ELSE IF ~resp.ok THEN Result(self, "RequestException", None, <<req>>)
        ELSE IF ~resp.has_token THEN Result(self, "KeyError", None, <<req>>)
        ELSE Result(self, "none", resp.token, <<req>>)

\* append_rows() whose guard tests the ingest host alone
append_rows_host_only(self, offset_token, resp) ==
    LET req == append_request(self, offset_token)
    IN  IF NoHostSet(self.ingest_host)
        THEN Result(self, "RuntimeError", None, << >>)
        ELSE IF ~resp.ok THEN Result(self, "RequestException", None, <<req>>)
        ELSE IF ~resp.has_token THEN Result(self, "KeyError", None, <<req>>)
        ELSE Result([self EXCEPT !.continuation_token = resp.token],
                    "none", resp.token, <<req>>)

\* append_rows() that reads the token with data.get(): a body without it
\* stores None and the call returns
append_rows_get(self, offset_token, resp) ==
    LET req == append_request(self, offset_token)
    IN  IF NoHostSet(self.ingest_host) \/ Falsy(self.continuation_token)
        THEN Result(self, "RuntimeError", None, << >>)
        ELSE IF ~resp.ok THEN Result(self, "RequestException", None, <<req>>)
        ELSE Result([self EXCEPT !.continuation_token =
                                    IF resp.has_token THEN resp.token ELSE None],
                    "none", IF resp.has_token THEN resp.token ELSE None, <<req>>)

\* append_rows(rows, offset_token): resp = [ok, has_token, token]
append_rows(self, offset_token, resp) ==
    LET req == append_request(self, offset_token)
    IN  IF NoHostSet(self.ingest_host) \/ Falsy(self.continuation_token)
        THEN Result(self, "RuntimeError", None, << >>)
        ELSE IF ~resp.ok THEN Result(self, "RequestException", None, <<req>>)
        ELSE IF ~resp.has_token THEN Result(self, "KeyError", None, <<req>>)
        ELSE Result([self EXCEPT !.continuation_token = resp.token],
                    "none", resp.token, <<req>>)

\* the POST of get_channel_status()
status_request(self) ==
    Req("POST bulk-channel-status", self.ingest_host,
        _headers(self.scoped_token, self.scoped_token_type), None, NoOffset)

\* get_channel_status() that sends its POST a second time when the first failed
get_channel_status_retries(self, resp) ==
    IF ~resp.ok
    THEN Result(self, "RequestException", None, <<status_request(self), status_request(self)>>)
    ELSE Result(self, "none", "status", <<status_request(self)>>)

\* get_channel_status() that forgets the continuation token when the body
\* does not list the channel
get_channel_status_forgets(self, resp) ==
    IF ~resp.ok THEN Result(self, "RequestException", None, <<status_request(self)>>)
    ELSE IF ~resp.has_channel
    THEN Result([self EXCEPT !.continuation_token = None], "none", "status",
                <<status_request(self)>>)
    ELSE Result(self, "none", "status", <<status_request(self)>>)

\* get_channel_status(): resp = [ok, has_channel, committed]; returns the body
get_channel_status(self, resp) ==
    IF ~resp.ok THEN Result(self, "RequestException", None, <<status_request(self)>>)
    ELSE Result(self, "none", "status", <<status_request(self)>>)

\* the DELETE of drop_channel()
drop_request(self) ==
    Req("DELETE channel", self.ingest_host,
        _headers(self.scoped_token, self.scoped_token_type), None, NoOffset)

\* drop_channel(): resp = [ok]
drop_channel(self, resp) ==
    IF ~resp.ok THEN Result(self, "RequestException", None, <<drop_request(self)>>)
    ELSE Result(self, "none", None, <<drop_request(self)>>)

\* connect() that goes on to open the channel after a failed token exchange
connect_ignores_exchange(self, cfg, r1, r2, r3) ==
    LET a == get_ingest_host(self, cfg, r1)
        b == exchange_scoped_token(a.self, cfg, r2)
        c == open_channel(b.self, NoOffset, r3)
    IN  IF a.raised # "none" THEN a
        ELSE Result(c.self, c.raised, None, a.sent \o b.sent \o c.sent)

\* connect(): the three steps in order, the first exception ends the call
connect(self, cfg, r1, r2, r3) ==
    LET a == get_ingest_host(self, cfg, r1)
        b == exchange_scoped_token(a.self, cfg, r2)
        c == open_channel(b.self, NoOffset, r3)
    IN  IF a.raised # "none" THEN a
        ELSE IF b.raised # "none" THEN Result(b.self, b.raised, None, a.sent \o b.sent)
        ELSE Result(c.self, c.raised, None, a.sent \o b.sent \o c.sent)

\* wait_for_commit() without the early return
returns_never_at_once(expected_offset) == FALSE

\* wait_for_commit(): `expected_offset is None` returns True before the loop
returns_at_once(expected_offset) == expected_offset = NoOffset

\* the loop test with <= for <
while_condition_inclusive(elapsed, timeout_seconds) == elapsed <= timeout_seconds

\* wait_for_commit(): the loop test, elapsed = time.time() - start
while_condition(elapsed, timeout_seconds) == elapsed < timeout_seconds

\* wait_for_commit(): the committed offset read from a status body, NoOffset
\* when the channel is not in it or has no last_committed_offset_token
committed_of(resp) == IF resp.has_channel THEN resp.committed ELSE NoOffset

\* the test with > for >=
committed_reached_strict(committed, expected_offset) ==
    committed # NoOffset /\ StrGE(committed, expected_offset) /\ committed # expected_offset

\* wait_for_commit(): `committed is not None and str(committed) >= str(expected_offset)`;
\* both are strings, which str() returns as they are
committed_reached(committed, expected_offset) ==
    committed # NoOffset /\ StrGE(committed, expected_offset)

\* wait_for_commit(): one pass of the loop body up to the sleep; an exception
\* of get_channel_status() is not caught and ends the call
poll_once(self, expected_offset, resp) ==
    LET r == get_channel_status(self, resp)
    IN  IF r.raised # "none"
        THEN [next |-> "raise", raised |-> r.raised, sent |-> r.sent, self |-> r.self]
        ELSE IF committed_reached(committed_of(resp), expected_offset)
        THEN [next |-> "return True", raised |-> "none", sent |-> r.sent, self |-> r.self]
        ELSE [next |-> "sleep", raised |-> "none", sent |-> r.sent, self |-> r.self]

(***************************************************************************)
(* The remote service: what it may answer to a request, and its state      *)
(* after answering.  It issues continuation tokens in order, accepts an    *)
(* append only with the newest token it issued on an existing channel,     *)
(* and accepts nothing without a bearer credential.                        *)
(***************************************************************************)
Authorized(req) == ~Falsy(req.bearer)
Reachable(req) == ~NoHostSet(req.host)

HostnameResponses(req) ==
    {[ok |-> FALSE, hostname |-> << >>]}
    \cup (IF Authorized(req) THEN {[ok |-> TRUE, hostname |-> h] : h \in Hostnames} ELSE {})

TokenResponses(req) ==
    {[ok |-> FALSE, has_token |-> FALSE, token |-> None]}
    \cup (IF Authorized(req)
          THEN {[ok |-> TRUE, has_token |-> FALSE, token |-> None],
                [ok |-> TRUE, has_token |-> TRUE, token |-> "oauth"]}
          ELSE {})

\* an outcome: the response, and the remote's token count and channel afterwards
Outcome(resp, n, open) == [resp |-> resp, issued |-> n, chanOpen |-> open]

OpenOutcomes(req) ==
    {Outcome([ok |-> FALSE, has_token |-> FALSE, token |-> None,
              has_status |-> FALSE, committed |-> NoOffset], issued, chanOpen)}
    \cup (IF Authorized(req) /\ Reachable(req)
          THEN {Outcome([ok |-> TRUE, has_token |-> FALSE, token |-> None,
                         has_status |-> TRUE, committed |-> NoOffset], issued, chanOpen)}
               \cup (IF issued < MaxTok
                     THEN {Outcome([ok |-> TRUE, has_token |-> TRUE, token |-> Tok(issued + 1),
                                    has_status |-> hs,
                                    committed |-> IF hs THEN c ELSE NoOffset],
                                   issued + 1, TRUE) : hs \in BOOLEAN, c \in CommittedOffsets}
                     ELSE {})
          ELSE {})

\* the remote takes the token of an append for stale
Stale(req) == req.continuationToken # Tok(issued)

AppendOutcomes(req) ==
    {Outcome([ok |-> FALSE, has_token |-> FALSE, token |-> None], issued, chanOpen)}
    \cup (IF Authorized(req) /\ Reachable(req) /\ chanOpen /\ ~Stale(req)
          THEN {Outcome([ok |-> TRUE, has_token |-> FALSE, token |-> None], issued, chanOpen)}
               \cup (IF issued < MaxTok
                     THEN {Outcome([ok |-> TRUE, has_token |-> TRUE, token |-> Tok(issued + 1)],
                                   issued + 1, chanOpen)}
                     ELSE {})
          ELSE {})

StatusResponses(req) ==
    {[ok |-> FALSE, has_channel |-> FALSE, committed |-> NoOffset]}
    \cup (IF Authorized(req) /\ Reachable(req)
          THEN {[ok |-> TRUE, has_channel |-> FALSE, committed |-> NoOffset]}
               \cup {[ok |-> TRUE, has_channel |-> TRUE, committed |-> c] : c \in OptOffsets}
          ELSE {})

DropOutcomes(req) ==
    {Outcome([ok |-> FALSE], issued, chanOpen)}
    \cup (IF Authorized(req) /\ Reachable(req)
          THEN {Outcome([ok |-> TRUE], issued, FALSE)}
          ELSE {})

(***************************************************************************)
(* The state machine.  A call is one step; wait_for_commit() is a step per *)
(* loop position, and the caller makes no other call until it returned.    *)
(***************************************************************************)
Idle == wait.pc = "idle"

\* the record of a call; step is the step of connect() that raised (0: none)
Call(op, r) == [op |-> op, raised |-> r.raised, ret |-> r.ret, sent |-> r.sent, step |-> 0]

InitHist ==
    [ clean |-> TRUE,          \* every open_channel/append_rows so far returned, no drop_channel
      lastReturned |-> None,   \* token returned by the last successful open or append
      staleRejected |-> FALSE, \* the remote received an append with a token it takes for stale
      opened |-> FALSE,        \* the last open_channel returned
      dropped |-> FALSE ]      \* drop_channel returned on an opened channel, no open_channel since

\* no wait_for_commit() is running; seen lists the committed offsets its polls read
InitWait ==
    [ pc |-> "idle", expected |-> NoOffset, timeout |-> 0, elapsed |-> 0, seen |-> << >> ]

\* no input recorded; main() is not running (the client is driven call by call)
NoInput == << >>
NoMain == [pc |-> "none", batch_number |-> 0, offset_token |-> NoOffset, verify_commit |-> FALSE]

\* the callers that may run append_rows() on the session at the same time,
\* and the frame of a caller that is not in append_rows(): req is the request
\* it handed to requests.post(), resp the response the remote has made for it
Callers == {"producer", "other"}
NoRequest == Req("none", NoHost, _headers(None, None), None, NoOffset)
NoResponse == [ok |-> FALSE, has_token |-> FALSE, token |-> None]
NoCalls ==
    [ frame |-> [t \in Callers |-> [ pc |-> "out", raised |-> "none",
                                     req |-> NoRequest, resp |-> NoResponse ]],
      overlapped |-> FALSE ]   \* a caller entered while another was in the call (ghost)

Constructed ==
    [op |-> "__init__", raised |-> "none", ret |-> None, sent |-> << >>, step |-> 0]

Init ==
    /\ config \in Configs
    /\ client = InitClient
    /\ issued = 0
    /\ chanOpen = FALSE
    /\ last = Constructed
    /\ wait = InitWait
    /\ hist = InitHist
    /\ input = NoInput
    /\ main = NoMain
    /\ calls = NoCalls

\* the session history after an open_channel() that ended as r
AfterOpen(h, r) ==
    [ h EXCEPT !.clean = h.clean /\ r.raised = "none",
               !.lastReturned = IF r.raised = "none" THEN r.ret ELSE h.lastReturned,
               !.opened = r.raised = "none",
               !.dropped = FALSE ]

\* the remote's state after a call that ended as r and was answered with outcome o
RemoteAfter(r, o) ==
    IF r.sent = << >> THEN <<issued, chanOpen>> ELSE <<o.issued, o.chanOpen>>

DoGetIngestHost ==
    /\ Idle
    /\ \E resp \in HostnameResponses(hostname_request(config)) :
          LET r == get_ingest_host(client, config, resp)
          IN  /\ client' = r.self
              /\ last' = Call("get_ingest_host", r)
    /\ UNCHANGED <<input, main, calls, config, issued, chanOpen, wait, hist>>

DoExchangeScopedToken ==
    /\ Idle
    /\ \E resp \in TokenResponses(token_request(config)) :
          LET r == exchange_scoped_token(client, config, resp)
          IN  /\ client' = r.self
              /\ last' = Call("exchange_scoped_token", r)
    /\ UNCHANGED <<input, main, calls, config, issued, chanOpen, wait, hist>>

DoOpenChannel ==
    /\ Idle
    /\ \E offset_token \in OptOffsets :
       \E o \in OpenOutcomes(open_request(client, offset_token)) :
          LET r == open_channel(client, offset_token, o.resp)
          IN  /\ client' = r.self
              /\ last' = Call("open_channel", r)
              /\ issued' = RemoteAfter(r, o)[1]
              /\ chanOpen' = RemoteAfter(r, o)[2]
              /\ hist' = AfterOpen(hist, r)
    /\ UNCHANGED <<input, main, calls, config, wait>>

\* the session history after an append_rows() that ended as r
AfterAppend(h, r) ==
    [ h EXCEPT !.clean = h.clean /\ r.raised = "none",
               !.lastReturned = IF r.raised = "none" THEN r.ret ELSE h.lastReturned,
               !.staleRejected = h.staleRejected \/ (r.sent # << >> /\ Stale(r.sent[1])) ]

\* a call of append_rows(rows, offset_token) and the remote's answer to it
AppendCall(offset_token) ==
    \E o \in AppendOutcomes(append_request(client, offset_token)) :
       LET r == append_rows(client, offset_token, o.resp)
       IN  /\ client' = r.self
           /\ last' = Call("append_rows", r)
           /\ issued' = RemoteAfter(r, o)[1]
           /\ chanOpen' = RemoteAfter(r, o)[2]
           /\ hist' = AfterAppend(hist, r)

DoAppendRows ==
    /\ Idle
    /\ \E offset_token \in OptOffsets : AppendCall(offset_token)
    /\ UNCHANGED <<input, main, calls, config, wait>>

DoGetChannelStatus ==
    /\ Idle
    /\ \E resp \in StatusResponses(status_request(client)) :
          LET r == get_channel_status(client, resp)
          IN  /\ client' = r.self
              /\ last' = Call("get_channel_status", r)
    /\ UNCHANGED <<input, main, calls, config, issued, chanOpen, wait, hist>>

DoDropChannel ==
    /\ Idle
    /\ \E o \in DropOutcomes(drop_request(client)) :
          LET r == drop_channel(client, o.resp)
          IN  /\ client' = r.self
              /\ last' = Call("drop_channel", r)
              /\ issued' = RemoteAfter(r, o)[1]
              /\ chanOpen' = RemoteAfter(r, o)[2]
              /\ hist' = [hist EXCEPT !.clean = FALSE,
                                      !.dropped = hist.dropped
                                                  \/ (hist.opened /\ r.raised = "none")]
    /\ UNCHANGED <<input, main, calls, config, wait>>

\* connect(): the responses are drawn as the requests are sent; a step that
\* raised ends the call, and the steps after it get no response to consume
NoHostnameResponse == [ok |-> FALSE, hostname |-> << >>]
NoTokenResponse == [ok |-> FALSE, has_token |-> FALSE, token |-> None]
NoOpenOutcome ==
    Outcome([ok |-> FALSE, has_token |-> FALSE, token |-> None,
             has_status |-> FALSE, committed |-> NoOffset], issued, chanOpen)

\* a call of connect() and the remote's answers to it
ConnectCall ==
    \E r1 \in HostnameResponses(hostname_request(config)) :
       LET a == get_ingest_host(client, config, r1)
       IN  \E r2 \in IF a.raised = "none" THEN TokenResponses(token_request(config))
                     ELSE {NoTokenResponse} :
              LET b == exchange_scoped_token(a.self, config, r2)
                  opened == a.raised = "none" /\ b.raised = "none"
              IN  \E o \in IF opened THEN OpenOutcomes(open_request(b.self, NoOffset))
                           ELSE {NoOpenOutcome} :
                     LET r == connect(client, config, r1, r2, o.resp)
                         c == open_channel(b.self, NoOffset, o.resp)
                     IN  /\ client' = r.self
                         /\ last' = [Call("connect", r) EXCEPT !.step =
                                IF a.raised # "none" THEN 1
                                ELSE IF b.raised # "none" THEN 2
                                ELSE IF c.raised # "none" THEN 3 ELSE 0]
                         /\ issued' = IF opened THEN RemoteAfter(c, o)[1] ELSE issued
                         /\ chanOpen' = IF opened THEN RemoteAfter(c, o)[2] ELSE chanOpen
                         /\ hist' = IF opened THEN AfterOpen(hist, c) ELSE hist

DoConnect ==
    /\ Idle
    /\ ConnectCall
    /\ UNCHANGED <<input, main, calls, config, wait>>

Next ==
    \/ DoGetIngestHost
    \/ DoExchangeScopedToken
    \/ DoOpenChannel
    \/ DoAppendRows
    \/ DoGetChannelStatus
    \/ DoDropChannel
    \/ DoConnect

Spec == Init /\ [][Next]_vars

(***************************************************************************)
(* wait_for_commit(), a step per loop position; a poll is two steps, the   *)
(* status request sent and its answer received, and other tasks may run    *)
(* while it is pending.  Time is in seconds since the call read its start  *)
(* time; it advances while a poll is in flight and during the sleep.       *)
(***************************************************************************)
Running ==
    [op |-> "wait_for_commit", raised |-> "running", ret |-> None, sent |-> << >>, step |-> 0]

Returned(ret) == [last EXCEPT !.raised = "none", !.ret = ret]

\* the call: returns True at once, or reads the start time and enters the loop
WaitForCommitCall(expected_offset, timeout_seconds) ==
    IF returns_at_once(expected_offset)
    THEN /\ wait' = [InitWait EXCEPT !.timeout = timeout_seconds]
         /\ last' = [Running EXCEPT !.raised = "none", !.ret = "True"]
    ELSE /\ wait' = [InitWait EXCEPT !.pc = "while", !.expected = expected_offset,
                                     !.timeout = timeout_seconds]
         /\ last' = Running

DoWaitForCommit ==
    /\ Idle
    /\ \E expected_offset \in OptOffsets, timeout_seconds \in 0..MaxTimeout :
          WaitForCommitCall(expected_offset, timeout_seconds)
    /\ UNCHANGED <<input, main, calls, config, client, issued, chanOpen, hist>>

\* while time.time() - start < timeout_seconds: ... return False
WhileStep ==
    /\ wait.pc = "while"
    /\ IF while_condition(wait.elapsed, wait.timeout)
       THEN /\ wait' = [wait EXCEPT !.pc = "poll"]
            /\ UNCHANGED last
       ELSE /\ wait' = [wait EXCEPT !.pc = "idle"]
            /\ last' = Returned("False")
    /\ UNCHANGED <<input, calls, config, client, issued, chanOpen, hist>>

WaitWhile == WhileStep /\ UNCHANGED main

\* the seconds a status request may take: none, one, or the whole timeout
\* of requests.post(); a wait that has polled MaxPolls times is answered
\* only at the slowest, so that it reaches its timeout
request_timeout == 30
PollSeconds(polled) == IF polled < MaxPolls THEN {0, 1, request_timeout} ELSE {request_timeout}

\* status = self.get_channel_status(), up to requests.post(): the request is
\* built from the session's fields and sent; the caller blocks for the answer
PollSendStep ==
    /\ wait.pc = "poll"
    /\ wait' = [wait EXCEPT !.pc = "pending"]
    /\ last' = [last EXCEPT !.sent = Append(last.sent, status_request(client))]
    /\ UNCHANGED <<input, calls, config, client, issued, chanOpen, hist>>

WaitPollSend == PollSendStep /\ UNCHANGED main

\* the answer to the pending status request arrives: get_channel_status()
\* returns or raises, then the test of the committed offset
PollAnswerStep ==
    /\ wait.pc = "pending"
    /\ \E resp \in StatusResponses(last.sent[Len(last.sent)]),
          took \in PollSeconds(Len(wait.seen)) :
          LET p == poll_once(client, wait.expected, resp)
              w == [wait EXCEPT !.elapsed = wait.elapsed + took]
          IN  /\ client' = p.self
              /\ CASE p.next = "raise" ->
                     /\ wait' = [w EXCEPT !.pc = "idle"]
                     /\ last' = [last EXCEPT !.raised = p.raised]
                [] p.next = "return True" ->
                     /\ wait' = [w EXCEPT !.pc = "idle",
                                          !.seen = Append(wait.seen, committed_of(resp))]
                     /\ last' = [last EXCEPT !.raised = "none", !.ret = "True"]
                [] p.next = "sleep" ->
                     /\ wait' = [w EXCEPT !.pc = "sleep",
                                          !.seen = Append(wait.seen, committed_of(resp))]
                     /\ UNCHANGED last
    /\ UNCHANGED <<input, calls, config, issued, chanOpen, hist>>

WaitPollAnswer == PollAnswerStep /\ UNCHANGED main

\* time.sleep(1): at least one second passes
SleepStep ==
    /\ wait.pc = "sleep"
    /\ \E slept \in 1..2 :
          wait' = [wait EXCEPT !.pc = "while", !.elapsed = wait.elapsed + slept]
    /\ UNCHANGED <<input, calls, config, client, issued, chanOpen, last, hist>>

WaitSleep == SleepStep /\ UNCHANGED main

\* the sessions a commit wait starts from: a new client, and the client after
\* each step of a connect() that the remote answered
AnsweredHostname == [ok |-> TRUE, hostname |-> <<"h", "_", "1">>]
AnsweredToken == [ok |-> TRUE, has_token |-> TRUE, token |-> "oauth"]
AnsweredOpen(c) ==
    [ok |-> TRUE, has_token |-> TRUE, token |-> Tok(1), has_status |-> TRUE, committed |-> c]

SessionsOf(cfg) ==
    LET a == get_ingest_host(InitClient, cfg, AnsweredHostname).self
        b == exchange_scoped_token(a, cfg, AnsweredToken).self
    IN  {InitClient, a, b}
        \cup {open_channel(b, NoOffset, AnsweredOpen(c)).self : c \in OptOffsets}

InitWaiting ==
    /\ config \in Configs
    /\ client \in SessionsOf(config)
    /\ issued = IF Falsy(client.continuation_token) THEN 0 ELSE 1
    /\ chanOpen = ~Falsy(client.continuation_token)
    /\ last = Constructed
    /\ wait = InitWait
    /\ hist = [InitHist EXCEPT !.lastReturned = client.continuation_token,
                               !.opened = ~Falsy(client.continuation_token)]
    /\ input = NoInput
    /\ main = NoMain
    /\ calls = NoCalls

NextWaiting ==
    \/ DoWaitForCommit
    \/ WaitWhile
    \/ WaitPollSend
    \/ WaitPollAnswer
    \/ WaitSleep

SpecWait == InitWaiting /\ [][NextWaiting]_vars

(***************************************************************************)
(* Properties of the session (checked under Spec).                         *)
(***************************************************************************)
Ops(sent) == [i \in 1..Len(sent) |-> sent[i].op]

\* every step of the session is a call, and `last` names the call of the step
AppendStep == last'.op = "append_rows"
OpenStep == last'.op = "open_channel"
ConnectStep == last'.op = "connect"
\* the step that calls wait_for_commit(): the caller was not in a wait before it
WaitCallStep == wait.pc = "idle" /\ last'.op = "wait_for_commit"

\* C1: continuation chaining.  While every open_channel()/append_rows() call
\* of the session has returned (and the channel was not dropped), the stored
\* continuation token is the one the last such call returned; every append
\* request then carries that token, which is the newest the remote issued, so
\* the remote takes none for stale; and after an append returned, the stored
\* token is the next_continuation_token of its response.
C1_ContinuationChaining ==
    /\ [](hist.clean => /\ client.continuation_token = hist.lastReturned
                        /\ ~hist.staleRejected)
    /\ [](last.op = "append_rows" /\ last.raised = "none"
             => client.continuation_token = last.ret)
    /\ [][(AppendStep /\ hist.clean /\ last'.sent # << >>)
             => /\ last'.sent[1].continuationToken = hist.lastReturned
                /\ ~Stale(last'.sent[1])]_vars

\* an append returned after an open and another append, all calls having returned
C1_Witness ==
    /\ hist.clean
    /\ last.op = "append_rows" /\ last.raised = "none"
    /\ issued = 3 /\ client.continuation_token = Tok(3)

\* C2: append_rows() on a session that stores no continuation token raises the
\* channel-not-opened error, sends no request and changes no field of the
\* session (nor anything at the remote).
C2_AppendBeforeOpen ==
    [][(AppendStep /\ Falsy(client.continuation_token))
          => /\ last'.raised = "RuntimeError"
             /\ last'.sent = << >>
             /\ client' = client
             /\ issued' = issued /\ chanOpen' = chanOpen]_vars

\* append_rows() was refused on a session that has its ingest host and its
\* scoped token but no continuation token
C2_Witness ==
    /\ last.op = "append_rows" /\ last.raised = "RuntimeError" /\ last.sent = << >>
    /\ ~NoHostSet(client.ingest_host) /\ ~Falsy(client.scoped_token)
    /\ Falsy(client.continuation_token)

\* C3: an open_channel() that raises leaves the stored continuation token and
\* the stored last committed offset as they were.
C3_FailedOpenKeepsState ==
    [][(OpenStep /\ last'.raised # "none")
          => /\ client'.continuation_token = client.continuation_token
             /\ client'.offset_token = client.offset_token]_vars

\* C4: an append_rows() whose request was answered with a non-2xx response, or
\* with a body without next_continuation_token, raises, and the stored
\* continuation token stays the one the request carried.
C4_FailedAppendKeepsToken ==
    /\ [](\A offset_token \in OptOffsets :
          \A o \in AppendOutcomes(append_request(client, offset_token)) :
             LET r == append_rows(client, offset_token, o.resp)
             IN  (r.sent # << >> /\ (~o.resp.ok \/ ~o.resp.has_token))
                    => /\ r.raised \in {"RequestException", "KeyError"}
                       /\ r.self.continuation_token = client.continuation_token)
    /\ [][(AppendStep /\ last'.raised # "none")
             => /\ client'.continuation_token = client.continuation_token
                /\ last'.sent # << >>
                      => client'.continuation_token = last'.sent[1].continuationToken]_vars

\* an append failed on a body without next_continuation_token, after an earlier
\* append had advanced the token
C4_Witness ==
    /\ last.op = "append_rows" /\ last.raised = "KeyError"
    /\ client.continuation_token = Tok(2)
    /\ last.sent[1].continuationToken = Tok(2)

\* C5: connect() sends the hostname GET, then the token POST (when the method
\* needs one), then the channel PUT, each at most once and in this order.  When
\* all three steps succeed it returns, and the session has an ingest host, a
\* scoped token and a continuation token.  When a step fails it raises, no
\* request of a later step was sent, and the fields the later steps set are
\* as they were before the call.
ConnectOrders ==
    { << >>, <<"GET hostname">>, <<"GET hostname", "POST oauth/token">>,
      <<"GET hostname", "PUT channel">>,
      <<"GET hostname", "POST oauth/token", "PUT channel">> }

C5_ConnectInOrder ==
    /\ [](last.op = "connect"
             => /\ Ops(last.sent) \in ConnectOrders
                /\ (last.raised = "none") <=> (last.step = 0))
    /\ [](last.op = "connect" /\ last.step = 0
             => /\ ~NoHostSet(client.ingest_host)
                /\ ~Falsy(client.scoped_token)
                /\ ~Falsy(client.continuation_token)
                /\ last.sent[Len(last.sent)].op = "PUT channel")
    /\ [][(ConnectStep /\ last'.step = 1)
             => /\ Ops(last'.sent) \in {<< >>, <<"GET hostname">>}
                /\ client' = client]_vars
    /\ [][(ConnectStep /\ last'.step = 2)
             => /\ Ops(last'.sent) \in {<<"GET hostname">>,
                                        <<"GET hostname", "POST oauth/token">>}
                /\ client'.continuation_token = client.continuation_token
                /\ client'.offset_token = client.offset_token]_vars

\* a connect() that sent all three requests and returned
C5_Witness ==
    /\ last.op = "connect" /\ last.raised = "none"
    /\ Ops(last.sent) = <<"GET hostname", "POST oauth/token", "PUT channel">>
    /\ client.scoped_token_type = "OAUTH"
    /\ client.continuation_token = Tok(issued)

\* C6: after open_channel() returned and then drop_channel() returned, an
\* append_rows() with no open_channel() in between raises the
\* channel-not-opened error and sends no request.
C6_AppendAfterDrop ==
    (last.op = "append_rows" /\ hist.dropped)
       => (last.raised = "RuntimeError" /\ last.sent = << >>)

(***************************************************************************)
(* Properties of wait_for_commit() (checked under SpecWait).               *)
(***************************************************************************)
WaitEnded == last.op = "wait_for_commit" /\ wait.pc = "idle"

\* the committed offset c answers the expected offset e, in the order of the
\* offset-token strings
Qualifies(c, e) == c # NoOffset /\ StrGE(c, e)

\* C7: wait_for_commit() ends by returning True or False, whatever its polls
\* are answered with.
C7_NeverRaises ==
    WaitEnded => (last.raised = "none" /\ last.ret \in {"True", "False"})

\* C8: with an expected offset, wait_for_commit() returns True at the first
\* poll that reads a committed offset >= the expected one (in the order of the
\* token strings) and polls no more; it returns False only when the timeout
\* has elapsed and no poll read such an offset; and it starts no poll after
\* the loop test found the timeout elapsed.
C8_FirstQualifyingPoll ==
    LET n == Len(wait.seen)
        earlier == IF WaitEnded /\ last.ret = "True" THEN 1..(n - 1) ELSE 1..n
    IN  wait.expected # NoOffset
        => /\ \A i \in earlier : ~Qualifies(wait.seen[i], wait.expected)
           /\ (WaitEnded /\ last.ret = "True")
                 => /\ n >= 1 /\ Qualifies(wait.seen[n], wait.expected)
                    /\ Len(last.sent) = n
           /\ (WaitEnded /\ last.ret = "False")
                 => /\ wait.elapsed >= wait.timeout
                    /\ Len(last.sent) = n
           /\ wait.pc = "poll" => wait.elapsed < wait.timeout

\* the second poll read the expected offset and the call returned True
C8_Witness ==
    /\ WaitEnded /\ last.ret = "True" /\ last.raised = "none"
    /\ wait.expected = str(10)
    /\ wait.seen = <<NoOffset, str(10)>>

\* C9: wait_for_commit() returns True only if some poll read a committed
\* offset numerically >= the expected offset.
C9_NumericOrder ==
    (WaitEnded /\ last.ret = "True" /\ wait.expected # NoOffset)
       => \E i \in DOMAIN wait.seen :
             wait.seen[i] # NoOffset /\ int(wait.seen[i]) >= int(wait.expected)

\* C10: wait_for_commit(None, timeout) returns True in the step of the call,
\* having sent no request and changed nothing of the session or the remote.
C10_AbsentOffsetReturnsTrue ==
    [][(WaitCallStep /\ wait'.expected = NoOffset)
          => /\ wait'.pc = "idle"
             /\ last'.raised = "none" /\ last'.ret = "True" /\ last'.sent = << >>
             /\ client' = client
             /\ issued' = issued /\ chanOpen' = chanOpen]_vars

\* wait_for_commit(None) returned on a session that has an open channel
C10_Witness ==
    /\ WaitEnded /\ last.ret = "True" /\ last.sent = << >>
    /\ wait.expected = NoOffset /\ wait.seen = << >>
    /\ ~Falsy(client.continuation_token)

(***************************************************************************)
(* Properties of the credential (checked under Spec).                      *)
(***************************************************************************)
\* _auth_token() takes the configured method for the pre-issued-token method:
\* it answers with the configured token, or raises for want of one
TakenAsPreIssued(cfg) ==
    LET auth == _auth_token(cfg)
    IN  auth.raised = "ValueError" \/ auth.type = "PROGRAMMATIC_ACCESS_TOKEN"

\* C11: under every method _auth_token() takes for the pre-issued-token
\* method, with a token configured, exchange_scoped_token() sends no request
\* and leaves the configured token as the scoped token, of type
\* PROGRAMMATIC_ACCESS_TOKEN.
C11_SameClassification ==
    (last.op = "exchange_scoped_token" /\ TakenAsPreIssued(config)
        /\ ~Falsy(config.pat_token))
       => /\ last.sent = << >>
          /\ last.raised = "none"
          /\ client.scoped_token = config.pat_token
          /\ client.scoped_token_type = "PROGRAMMATIC_ACCESS_TOKEN"

\* C12: under the pre-issued-token method with no token configured,
\* get_ingest_host() and exchange_scoped_token() raise the configuration error
\* and send nothing, and the session never holds a scoped-token type without
\* a scoped token.
C12_NoTokenNoCredential ==
    (TakenAsPreIssued(config) /\ Falsy(config.pat_token))
       => /\ last.op \in {"get_ingest_host", "exchange_scoped_token"}
                => (last.raised = "ValueError" /\ last.sent = << >>)
          /\ ~(~Falsy(client.scoped_token_type) /\ Falsy(client.scoped_token))

(***************************************************************************)
(* Hostname discovery on its own (SpecHost): get_ingest_host() called      *)
(* again and again, each call answered with a body whose hostname is any   *)
(* string of at most MaxHostLen characters.                                *)
(***************************************************************************)
\* longest hostname a discovery body carries
MaxHostLen == 3

\* a letter, the underscore the code replaces, and the hyphen it replaces it with
HostChars == {"a", "_", "-"}
HostStrings == UNION { [1..n -> HostChars] : n \in 0..MaxHostLen }

\* the answers of the hostname endpoint: a 2xx with the hostname its body
\* names, or a failure (whose body is not read)
DiscoveryResponses ==
    [ok : {TRUE}, hostname : HostStrings] \cup [ok : {FALSE}, hostname : {<< >>}]

InitHost ==
    /\ config \in Configs
    /\ client = InitClient
    /\ issued = 0
    /\ chanOpen = FALSE
    /\ last = Constructed
    /\ wait = InitWait
    /\ hist = InitHist
    /\ input = NoInput
    /\ main = NoMain
    /\ calls = NoCalls

\* get_ingest_host(); input records the hostname of the body it received
DiscoverHost ==
    /\ \E resp \in DiscoveryResponses :
          LET r == get_ingest_host(client, config, resp)
          IN  /\ client' = r.self
              /\ last' = Call("get_ingest_host", r)
              /\ input' = IF r.sent = << >> THEN NoInput ELSE resp.hostname
    /\ UNCHANGED <<main, calls, config, issued, chanOpen, wait, hist>>

NextHost == DiscoverHost

SpecHost == InitHost /\ [][NextHost]_vars

\* C13: when get_ingest_host() returns, the host it stored (the value it
\* returns) is as long as the discovered hostname, has a hyphen wherever that
\* has an underscore, the same character everywhere else, and no underscore.
C13_HostnameNormalized ==
    (last.op = "get_ingest_host" /\ last.raised = "none")
       => /\ last.ret = "host"
          /\ Len(client.ingest_host) = Len(input)
          /\ \A i \in 1..Len(input) :
                client.ingest_host[i] = IF input[i] = "_" THEN "-" ELSE input[i]
          /\ \A i \in 1..Len(client.ingest_host) : client.ingest_host[i] # "_"

\* a discovered hostname with two underscores was stored with two hyphens
C13_Witness ==
    /\ last.op = "get_ingest_host" /\ last.raised = "none"
    /\ input = <<"_", "a", "_">>
    /\ client.ingest_host = <<"-", "a", "-">>

(***************************************************************************)
(* src/snowflake_jwt_auth.py on its own (SpecJwt): generate_jwt() called   *)
(* on a JwtConfig at any reading of the clock.  A string is the sequence   *)
(* of its pieces: the characters of an identifier, the "." separators, the *)
(* "SHA256:" prefix, the base64 digest.  config holds the JwtConfig,       *)
(* input the reading of time.time(), last.ret the claims of the token.     *)
(***************************************************************************)
\* longest account identifier and user name
MaxIdLen == 2
\* lifetimes 1..MaxLifetime are configured besides -1, 0 and the default
MaxLifetime == 2
\* readings of time.time(), in half seconds
MaxClock == 5

Identifiers == UNION { [1..n -> {"a", "B"}] : n \in 1..MaxIdLen }

\* no fingerprint supplied: None or "", both falsy
NoFingerprint == << >>

\* public_key_fp as configured: absent, in the form of the computed one, or bare
Fingerprints == {NoFingerprint, <<"SHA256:", "p">>, <<"p">>}

Lifetimes == {-1, 0, 3600} \cup (1..MaxLifetime)

JwtConfigs ==
    [ account_identifier : Identifiers, user : Identifiers,
      private_key_path : {"rsa_key.p8", "unreadable.p8"},
      public_key_fp : Fingerprints, lifetime_seconds : Lifetimes ]

\* _public_key_fingerprint(): "SHA256:" and the base64 SHA-256 digest of the
\* public key, a value fixed by the key (named here by the key's file)
_public_key_fingerprint(private_key) == <<"SHA256:", private_key>>

\* str.upper() on one character
upper(ch) == IF ch = "a" THEN "A" ELSE ch

\* _normalize_identifier()
_normalize_identifier(value) == [i \in 1..Len(value) |-> upper(value[i])]

\* the claims of no token
NoPayload == [iss |-> << >>, sub |-> << >>, iat |-> 0, exp |-> 0]

\* generate_jwt() that rounds the clock for exp where it truncates it for iat
generate_jwt_rounds(cfg, t) ==
    IF ~KeyLoads(cfg.private_key_path)
    THEN [raised |-> "OSError", payload |-> NoPayload]
    ELSE LET public_key_fp == IF cfg.public_key_fp # NoFingerprint
                              THEN cfg.public_key_fp
                              ELSE _public_key_fingerprint(cfg.private_key_path)
             account == _normalize_identifier(cfg.account_identifier)
             user == _normalize_identifier(cfg.user)
             now == t \div 2
         IN  [ raised |-> "none",
               payload |-> [ iss |-> account \o <<".">> \o user \o <<".">> \o public_key_fp,
                             sub |-> account \o <<".">> \o user,
                             iat |-> now,
                             exp |-> ((t + 1) \div 2) + cfg.lifetime_seconds ] ]

\* generate_jwt(config) at the clock reading t (half seconds): the claims it
\* signs, or the error of loading the key.  now = int(time.time())
generate_jwt(cfg, t) ==
    IF ~KeyLoads(cfg.private_key_path)
    THEN [raised |-> "OSError", payload |-> NoPayload]
    ELSE LET public_key_fp == IF cfg.public_key_fp # NoFingerprint
                              THEN cfg.public_key_fp
                              ELSE _public_key_fingerprint(cfg.private_key_path)
             account == _normalize_identifier(cfg.account_identifier)
             user == _normalize_identifier(cfg.user)
             now == t \div 2
         IN  [ raised |-> "none",
               payload |-> [ iss |-> account \o <<".">> \o user \o <<".">> \o public_key_fp,
                             sub |-> account \o <<".">> \o user,
                             iat |-> now,
                             exp |-> now + cfg.lifetime_seconds ] ]

InitJwt ==
    /\ config \in JwtConfigs
    /\ client = InitClient
    /\ issued = 0
    /\ chanOpen = FALSE
    /\ last = [op |-> "JwtConfig", raised |-> "none", ret |-> NoPayload]
    /\ wait = InitWait
    /\ hist = InitHist
    /\ input = 0
    /\ main = NoMain
    /\ calls = NoCalls

GenerateJwt ==
    /\ \E t \in 0..MaxClock :
          LET r == generate_jwt(config, t)
          IN  /\ last' = [op |-> "generate_jwt", raised |-> r.raised, ret |-> r.payload]
              /\ input' = t
    /\ UNCHANGED <<main, calls, config, client, issued, chanOpen, wait, hist>>

NextJwt == GenerateJwt

SpecJwt == InitJwt /\ [][NextJwt]_vars

\* C14: a token generate_jwt() issues under lifetime L has exp - iat = L
\* exactly, and iat is the clock reading cut to whole seconds.
C14_LifetimeExact ==
    (last.op = "generate_jwt" /\ last.raised = "none")
       => /\ last.ret.exp - last.ret.iat = config.lifetime_seconds
          /\ 2 * last.ret.iat <= input /\ input < 2 * last.ret.iat + 2

\* a token issued half a second past a whole second, under the default lifetime
C14_Witness ==
    /\ last.op = "generate_jwt" /\ last.raised = "none"
    /\ input = 3 /\ config.lifetime_seconds = 3600
    /\ last.ret.iat = 1 /\ last.ret.exp = 3601

\* C15: a token generate_jwt() issues has the subject ACCOUNT.USER, both in
\* upper case, and an issuer that is the subject followed by ".", "SHA256:"
\* and a fingerprint value, whether the fingerprint was supplied or computed.
C15_IssuerSubject ==
    (last.op = "generate_jwt" /\ last.raised = "none")
       => LET sub == last.ret.sub
              iss == last.ret.iss
              n == Len(sub)
          IN  /\ sub = _normalize_identifier(config.account_identifier) \o <<".">>
                          \o _normalize_identifier(config.user)
              /\ \A i \in 1..n : sub[i] # "a"
              /\ Len(iss) = n + 3
              /\ SubSeq(iss, 1, n) = sub
              /\ iss[n + 1] = "." /\ iss[n + 2] = "SHA256:"

(***************************************************************************)
(* main() of src/main.py (SpecMain): connect(), then the producer loop, a  *)
(* step per statement that touches the client; the wait_for_commit() of    *)
(* --verify-commit runs step by step as above.  An exception of a client   *)
(* method is not caught and ends main().                                   *)
(***************************************************************************)
\* batches the loop sends in one behaviour
MaxBatches == 2
\* readings of time.time() in _next_offset(), in seconds
MaxNow == 2

\* _next_offset(current); now is int(time.time() * 1000), read when int() or
\* str() raises ValueError
_next_offset(current, now) ==
    IF current = NoOffset THEN str(1)
    ELSE IF IsDecimal(current) /\ str_fits(plus_one(long(current)))
    THEN long_str(plus_one(long(current)))
    ELSE str(now)

InitMain ==
    /\ config \in Configs
    /\ client = InitClient
    /\ issued = 0
    /\ chanOpen = FALSE
    /\ last = Constructed
    /\ wait = InitWait
    /\ hist = InitHist
    /\ input = NoInput
    /\ \E verify_commit \in BOOLEAN :
          main = [ pc |-> "connect", batch_number |-> 0, offset_token |-> NoOffset,
                   verify_commit |-> verify_commit ]
    /\ calls = NoCalls

\* where main() goes after a client method ended as the call record says
AfterCall(call, next) == IF call.raised = "none" THEN next ELSE "raised"

\* client.connect(); input records the last committed offset the open
\* response carried, as open_channel() stored it
MainConnect ==
    /\ main.pc = "connect"
    /\ ConnectCall
    /\ main' = [main EXCEPT !.pc = AfterCall(last', "build")]
    /\ input' = IF last'.raised = "none" THEN client'.offset_token ELSE NoInput
    /\ UNCHANGED <<calls, config, wait>>

\* batch_number += 1; rows = _build_rows(...); offset_token = _next_offset(client.offset_token)
MainNextOffset ==
    /\ main.pc = "build"
    /\ main.batch_number < MaxBatches
    /\ \E now \in {1000 * t : t \in 0..MaxNow} :
          main' = [main EXCEPT !.pc = "append",
                               !.batch_number = main.batch_number + 1,
                               !.offset_token = _next_offset(client.offset_token, now)]
    /\ UNCHANGED <<input, calls, config, client, issued, chanOpen, last, wait, hist>>

\* response = client.append_rows(rows, offset_token=offset_token)
MainAppend ==
    /\ main.pc = "append"
    /\ AppendCall(main.offset_token)
    /\ main' = [main EXCEPT !.pc = AfterCall(last', "store")]
    /\ UNCHANGED <<input, calls, config, wait>>

\* client.offset_token = offset_token
MainStoreOffset ==
    /\ main.pc = "store"
    /\ client' = [client EXCEPT !.offset_token = main.offset_token]
    /\ main' = [main EXCEPT !.pc = "verify"]
    /\ UNCHANGED <<input, calls, config, issued, chanOpen, last, wait, hist>>

\* the timeout of the wait main() starts: the default of wait_for_commit()
timeout_seconds_default == 60

\* if args.verify_commit: committed = client.wait_for_commit(offset_token),
\* up to the loop of the wait (or its return at once)
MainVerify ==
    /\ main.pc = "verify"
    /\ IF main.verify_commit
       THEN /\ WaitForCommitCall(main.offset_token, timeout_seconds_default)
            /\ main' = [main EXCEPT !.pc = IF wait'.pc = "idle" THEN "sleep" ELSE "waiting"]
       ELSE /\ main' = [main EXCEPT !.pc = "sleep"]
            /\ UNCHANGED <<last, wait>>
    /\ UNCHANGED <<input, calls, config, client, issued, chanOpen, hist>>

\* where main() is after a step of its wait: still in it, or past it as it ended
AfterWaitStep ==
    [main EXCEPT !.pc = IF wait'.pc = "idle" THEN AfterCall(last', "sleep") ELSE "waiting"]

\* the steps of the wait_for_commit() main() is in
MainWaitWhile == main.pc = "waiting" /\ WhileStep /\ main' = AfterWaitStep
MainWaitPollSend == main.pc = "waiting" /\ PollSendStep /\ main' = AfterWaitStep
MainWaitPollAnswer == main.pc = "waiting" /\ PollAnswerStep /\ main' = AfterWaitStep
MainWaitSleep == main.pc = "waiting" /\ SleepStep /\ main' = AfterWaitStep

\* time.sleep(args.interval)
MainSleep ==
    /\ main.pc = "sleep"
    /\ main' = [main EXCEPT !.pc = "build"]
    /\ UNCHANGED <<input, calls, config, client, issued, chanOpen, last, wait, hist>>

NextMain ==
    \/ MainConnect
    \/ MainNextOffset
    \/ MainAppend
    \/ MainStoreOffset
    \/ MainVerify
    \/ MainWaitWhile
    \/ MainWaitPollSend
    \/ MainWaitPollAnswer
    \/ MainWaitSleep
    \/ MainSleep

SpecMain == InitMain /\ [][NextMain]_vars

\* C16: the ingest host, the continuation token and the last committed
\* offset token of the session change only in steps that are calls of the
\* client's own methods: the statements of main() between its calls of
\* connect() and append_rows() leave them as they are.
C16_OnlySessionWrites ==
    [][(main.pc \in {"build", "store", "sleep"} \/ (main.pc = "verify" /\ ~main.verify_commit))
          => /\ client'.ingest_host = client.ingest_host
             /\ client'.continuation_token = client.continuation_token
             /\ client'.offset_token = client.offset_token]_vars

\* C17: the session's last committed offset token tracks the service: once a
\* poll of wait_for_commit() has read a committed offset for the channel, the
\* field holds the committed offset the latest such poll was told.
C17_OffsetTracksService ==
    LET n == Len(wait.seen)
    IN  (n > 0 /\ wait.seen[n] # NoOffset) => client.offset_token = wait.seen[n]

(***************************************************************************)
(* Properties of the guards and of the requests sent (checked under Spec). *)
(***************************************************************************)
\* C18: open_channel() sends its request only in a session that has acquired
\* a scoped token: a request of open_channel() carries a bearer credential
\* and a token type, neither absent.
C18_OpenNeedsScopedToken ==
    (last.op = "open_channel" /\ last.sent # << >>)
       => /\ ~Falsy(last.sent[1].bearer)
          /\ ~Falsy(last.sent[1].ttype)

\* C19: get_channel_status() and drop_channel() on a session that was never
\* opened (no ingest host, no scoped token, no continuation token) raise the
\* channel-not-opened error and send no request.
C19_StatusDropNeedChannel ==
    (last.op \in {"get_channel_status", "drop_channel"}
        /\ NoHostSet(client.ingest_host) /\ Falsy(client.scoped_token)
        /\ Falsy(client.continuation_token))
       => (last.raised = "RuntimeError" /\ last.sent = << >>)

\* the methods that send one request
SingleRequestCalls ==
    { "get_ingest_host", "exchange_scoped_token", "open_channel", "append_rows",
      "get_channel_status", "drop_channel" }

\* a call that was answered with a failure raised it, after sending once
Propagated(r) == r.sent # << >> => (r.raised = "RequestException" /\ Len(r.sent) = 1)

\* C20: a call of get_ingest_host(), exchange_scoped_token(), open_channel(),
\* append_rows(), get_channel_status() or drop_channel() sends at most one
\* request; when the request fails the call raises that failure, having sent
\* the request once.
C20_NoSilentRetry ==
    /\ last.op \in SingleRequestCalls
          => /\ Len(last.sent) <= 1
             /\ last.raised = "RequestException" => Len(last.sent) = 1
    /\ \A resp \in HostnameResponses(hostname_request(config)) :
          ~resp.ok => Propagated(get_ingest_host(client, config, resp))
    /\ \A resp \in TokenResponses(token_request(config)) :
          ~resp.ok => Propagated(exchange_scoped_token(client, config, resp))
    /\ \A offset_token \in OptOffsets :
          /\ \A o \in OpenOutcomes(open_request(client, offset_token)) :
                ~o.resp.ok => Propagated(open_channel(client, offset_token, o.resp))
          /\ \A o \in AppendOutcomes(append_request(client, offset_token)) :
                ~o.resp.ok => Propagated(append_rows(client, offset_token, o.resp))
    /\ \A resp \in StatusResponses(status_request(client)) :
          ~resp.ok => Propagated(get_channel_status(client, resp))
    /\ \A o \in DropOutcomes(drop_request(client)) :
          ~o.resp.ok => Propagated(drop_channel(client, o.resp))

\* an append on an open channel was answered with a failure: it raised, and
\* its request was sent once
C20_Witness ==
    /\ last.op = "append_rows" /\ last.raised = "RequestException"
    /\ Len(last.sent) = 1 /\ last.sent[1].op = "POST rows"
    /\ hist.opened /\ last.sent[1].continuationToken = Tok(issued)

(***************************************************************************)
(* Properties of the producer loop (checked under SpecMain).               *)
(***************************************************************************)
\* a decimal integer written in the ASCII digits
DecimalInteger(s) == Len(s) > 0 /\ \A i \in 1..Len(s) : s[i] \in 48..57

\* the channel's last committed offset at open is absent or a decimal integer
DecimalAtOpen == input = NoOffset \/ (input # NoInput /\ DecimalInteger(input))

\* n added k times one (integers of any size)
RECURSIVE plus(_, _)
plus(n, k) == IF k = 0 THEN n ELSE plus(plus_one(n), k - 1)

\* the channel's last committed offset at open plus k (from 0 when absent),
\* as a token
AtOpenPlus(k) ==
    long_str(plus(IF input = NoOffset THEN [neg |-> FALSE, mag |-> << >>] ELSE long(input), k))

\* the positions of main() at which a batch has its offset token
HasOffsetToken == main.pc \in {"append", "store", "verify", "waiting", "sleep"}

\* C21: in the producer loop, when the channel's last committed offset at
\* open is absent or a decimal integer, the offset token of the n-th batch is
\* that value (0 if absent) plus n; each batch's token is one greater than
\* the one before; and the session's current offset changes only in the
\* statement after an append_rows() that returned, to the token that append
\* sent; an append that raised leaves it where it was and ends the loop.
C21_MonotonicOffsets ==
    /\ []((HasOffsetToken /\ DecimalAtOpen)
             => main.offset_token = AtOpenPlus(main.batch_number))
    /\ [][(main.pc = "append" /\ DecimalAtOpen /\ last'.sent # << >>)
             => last'.sent[1].offsetToken = AtOpenPlus(main.batch_number)]_vars
    /\ [][(main.pc = "build" /\ main.batch_number >= 1)
             => /\ IsDecimal(main.offset_token) /\ IsDecimal(main'.offset_token)
                /\ long(main'.offset_token) = plus_one(long(main.offset_token))]_vars
    /\ [][(main.pc # "connect" /\ client'.offset_token # client.offset_token)
             => /\ main.pc = "store"
                /\ last.op = "append_rows" /\ last.raised = "none"
                /\ client'.offset_token = last.sent[1].offsetToken]_vars
    /\ [][(main.pc = "append" /\ last'.raised # "none")
             => /\ client'.offset_token = client.offset_token
                /\ main'.pc = "raised"]_vars

(***************************************************************************)
(* append_rows() step by step, for callers that run beside other tasks on  *)
(* one session.  A call is: up to requests.post(), which sends the request *)
(* built from the fields as they are then; the remote handling the         *)
(* request, at any time while the caller is blocked in requests.post();    *)
(* and from the response on.  Other tasks may run between the steps.       *)
(***************************************************************************)
\* append_rows() up to the sending of the request: the guard, then the
\* request built from the session's fields
append_rows_send(self, offset_token) ==
    IF NoHostSet(self.ingest_host) \/ Falsy(self.continuation_token)
    THEN [pc |-> "raised", raised |-> "RuntimeError", req |-> NoRequest, resp |-> NoResponse]
    ELSE [ pc |-> "sent", raised |-> "none",
           req |-> append_request(self, offset_token), resp |-> NoResponse ]

\* append_rows() from the response on, without the assignment of the token
append_rows_receive_keeps(self, resp) ==
    IF ~resp.ok THEN [self |-> self, raised |-> "RequestException"]
    ELSE IF ~resp.has_token THEN [self |-> self, raised |-> "KeyError"]
    ELSE [self |-> self, raised |-> "none"]

\* append_rows() from the response on: raise_for_status(), then the token of
\* the body is assigned to the session as it is then
append_rows_receive(self, resp) ==
    IF ~resp.ok THEN [self |-> self, raised |-> "RequestException"]
    ELSE IF ~resp.has_token THEN [self |-> self, raised |-> "KeyError"]
    ELSE [self |-> [self EXCEPT !.continuation_token = resp.token], raised |-> "none"]

\* caller t is blocked in the requests.post() of append_rows()
InFlight(t) == calls.frame[t].pc \in {"sent", "answered"}

\* caller t enters append_rows() and runs it up to the request (the offset
\* token only travels in the request: one token is drawn)
AppendSend(t) ==
    /\ ~InFlight(t)
    /\ \E offset_token \in {str(MaxOffset)} :
          LET f == append_rows_send(client, offset_token)
          IN  /\ calls' = [ frame |-> [calls.frame EXCEPT ![t] = f],
                            overlapped |-> calls.overlapped
                                           \/ \E u \in Callers \ {t} : InFlight(u) ]
              /\ hist' = [hist EXCEPT !.clean = hist.clean /\ f.raised = "none"]
    /\ UNCHANGED <<input, main, config, client, issued, chanOpen, last, wait>>

\* the remote handles the request of caller t and makes its response
AppendHandled(t) ==
    /\ calls.frame[t].pc = "sent"
    /\ \E o \in AppendOutcomes(calls.frame[t].req) :
          /\ issued' = o.issued
          /\ chanOpen' = o.chanOpen
          /\ calls' = [calls EXCEPT !.frame[t].pc = "answered", !.frame[t].resp = o.resp]
    /\ hist' = [hist EXCEPT !.staleRejected = hist.staleRejected \/ Stale(calls.frame[t].req)]
    /\ UNCHANGED <<input, main, config, client, last, wait>>

\* the response reaches caller t, which runs append_rows() to its end
AppendReceive(t) ==
    /\ calls.frame[t].pc = "answered"
    /\ LET r == append_rows_receive(client, calls.frame[t].resp)
       IN  /\ client' = r.self
           /\ hist' = [hist EXCEPT
                          !.clean = hist.clean /\ r.raised = "none",
                          !.lastReturned = IF r.raised = "none" THEN calls.frame[t].resp.token
                                           ELSE hist.lastReturned]
           /\ calls' = [calls EXCEPT !.frame[t].pc =
                                         IF r.raised = "none" THEN "returned" ELSE "raised",
                                     !.frame[t].raised = r.raised]
    /\ UNCHANGED <<input, main, config, issued, chanOpen, last, wait>>

\* no caller is in append_rows()
NoneInFlight == \A t \in Callers : ~InFlight(t)

(***************************************************************************)
(* A commit wait in a task of its own (SpecTasks): the steps of            *)
(* wait_for_commit() interleave with the steps of the producer's           *)
(* append_rows() calls on the same session.  The producer makes one call   *)
(* at a time; the record `last` is that of the waiting task.               *)
(***************************************************************************)
\* a step of the producer's append_rows()
ProducerAppend ==
    \/ AppendSend("producer")
    \/ AppendHandled("producer")
    \/ AppendReceive("producer")

NextTasks ==
    \/ NextWaiting
    \/ ProducerAppend

SpecTasks == InitWaiting /\ [][NextTasks]_vars

\* a step of the waiting task (the producer's steps leave wait and last alone)
WaitTaskStep == wait' # wait \/ last' # last

\* C22: get_channel_status() and the steps of wait_for_commit() leave the
\* ingest host, the scoped token and the continuation token of the session
\* (and the tokens the remote has issued) as they are, whatever the polls are
\* answered with; and with a wait interleaved with the appends, while every
\* append has returned the stored continuation token is the one last
\* returned (the newest issued, when no append is in flight) and the remote
\* has received no stale token.
C22_WaitKeepsChain ==
    /\ [][WaitTaskStep
             => /\ client'.ingest_host = client.ingest_host
                /\ client'.scoped_token = client.scoped_token
                /\ client'.scoped_token_type = client.scoped_token_type
                /\ client'.continuation_token = client.continuation_token
                /\ issued' = issued /\ chanOpen' = chanOpen]_vars
    /\ [](\A resp \in StatusResponses(status_request(client)) :
             LET r == get_channel_status(client, resp)
             IN  /\ r.self.ingest_host = client.ingest_host
                 /\ r.self.scoped_token = client.scoped_token
                 /\ r.self.continuation_token = client.continuation_token)
    /\ [](hist.clean => /\ client.continuation_token = hist.lastReturned
                        /\ ~hist.staleRejected
                        /\ (hist.opened /\ NoneInFlight)
                              => client.continuation_token = Tok(issued))

\* the second status request of a wait is pending while the producer's
\* second append is in flight: the remote has handled the append and issued
\* the third token, the session still holds the second
C22_Witness ==
    /\ wait.pc = "pending" /\ Len(wait.seen) = 1 /\ Len(last.sent) = 2
    /\ calls.frame["producer"].pc = "answered" /\ hist.clean
    /\ issued = 3 /\ client.continuation_token = Tok(2)
    /\ calls.frame["producer"].resp.token = Tok(3)

(***************************************************************************)
(* Termination of wait_for_commit() (SpecWaitFair): a call that has        *)
(* started goes on, since every status request is sent and answered (the   *)
(* request has a timeout) and the sleep ends with the clock advanced.      *)
(***************************************************************************)
SpecWaitFair ==
    /\ InitWaiting
    /\ [][NextWaiting]_vars
    /\ WF_vars(WaitWhile)
    /\ WF_vars(WaitPollSend)
    /\ WF_vars(WaitPollAnswer)
    /\ WF_vars(WaitSleep)

\* C23: a wait_for_commit() that has entered its loop ends; it ends by
\* returning unless a poll of it raised; it starts no poll once the elapsed
\* time has reached the timeout; and with timeout 0 (and an expected offset)
\* it returns False without having polled.
C23_WaitTerminates ==
    /\ (wait.pc # "idle") ~> (wait.pc = "idle")
    /\ []((WaitEnded /\ last.raised # "none")
             => /\ last.raised = "RequestException"
                /\ Len(last.sent) = Len(wait.seen) + 1)
    /\ [](wait.pc = "poll" => wait.elapsed < wait.timeout)
    /\ []((WaitEnded /\ wait.expected # NoOffset /\ wait.timeout = 0)
             => /\ last.raised = "none" /\ last.ret = "False"
                /\ last.sent = << >> /\ wait.seen = << >>)

\* a wait with the largest timeout polled twice without reading the expected
\* offset, then found the timeout elapsed and returned False
C23_Witness ==
    /\ WaitEnded /\ last.raised = "none" /\ last.ret = "False"
    /\ wait.timeout = MaxTimeout /\ wait.elapsed >= MaxTimeout
    /\ Len(wait.seen) = 2 /\ Len(last.sent) = 2

(***************************************************************************)
(* Two callers in append_rows() on one session (SpecConcurrent).           *)
(***************************************************************************)
NextConcurrent ==
    \/ \E t \in Callers : AppendSend(t)
    \/ \E t \in Callers : AppendHandled(t)
    \/ \E t \in Callers : AppendReceive(t)

SpecConcurrent == InitWaiting /\ [][NextConcurrent]_vars

\* both callers' latest requests carried the same continuation token
SameTokenSent ==
    /\ \A t \in Callers : calls.frame[t].req # NoRequest
    /\ calls.frame["producer"].req.continuationToken
          = calls.frame["other"].req.continuationToken

\* C24: the remote receives an append with a stale continuation token only
\* when two callers were in append_rows() at the same time: with the appends
\* serialized, no append carries a token the remote takes for stale, and
\* while every append returned and none is in flight the stored token is
\* the newest issued.  (The
\* witness is the interleaving in which both requests carry the same token
\* and the second to be handled is stale.)
C24_ConcurrentAppendsUnsafe ==
    /\ hist.staleRejected => calls.overlapped
    /\ (~calls.overlapped /\ hist.clean /\ hist.opened /\ NoneInFlight)
          => client.continuation_token = Tok(issued)

\* both callers sent the token of the open; the producer's append returned
\* and the other caller's was refused as stale
C24_Witness ==
    /\ SameTokenSent /\ calls.overlapped /\ hist.staleRejected
    /\ calls.frame["producer"].req.continuationToken = Tok(1)
    /\ calls.frame["producer"].pc = "returned"
    /\ calls.frame["other"].pc = "raised" /\ calls.frame["other"].raised = "RequestException"
    /\ client.continuation_token = Tok(2)

====
